---- MODULE Spec2Model ----
(***************************************************************************)
(* The authority (server) side of Labyrinth, src/src/main.rs: maze         *)
(* generation, the per-frame request handler server_receive_requests, the  *)
(* connection handler server_on_events and the event buffers between the   *)
(* presentation processes and the authority.                               *)
(*                                                                         *)
(* One frame of the authority is one action, Frame: PreUpdate              *)
(* (server_receive_requests, when State<GameState> is InGame), then        *)
(* StateTransition (the NextState resources are applied), then Update      *)
(* (server_on_events, whose spawn commands are applied after the system    *)
(* has run), then the event buffers' update of the next frame's First.     *)
(***************************************************************************)
EXTENDS Integers, Sequences, FiniteSets, TLC

(* ------------------------------ bounds -------------------------------- *)

\* Generator seeds tried (thread_rng is a seeded generator; see NextRand).
NumSeeds == 1
\* Barrier counts tried in a session: MinTiles .. MinTiles + TileChoices - 1.
TileChoices == 1
\* Largest configured player count tried (never above MaxPlayersArg).
PlayersBound == 3
\* Messages (requests and connection notifications) in flight at once.
MaxInFlight == 2
\* Turn hand-overs after which the presentation processes stop sending.
MaxHandovers == 3
\* Generator seeds of the generation-only specification SpecGen.
GenSeeds == 8
\* How many entries of the dice table a roll may draw (a prefix of it).
DiceChoices == 2
\* How many indices take_random may draw (0 .. RandChoices - 1, cut to len).
RandChoices == 1

(* -------------------------- program constants ------------------------- *)

BOARD_SIZE == 6
ITEMS_TO_WIN == 5
MinPlayersArg == 1
MaxPlayersArg == 4
MinTiles == 15
MaxTiles == 20

Min(a, b) == IF a < b THEN a ELSE b

IVec2(px, py) == [x |-> px, y |-> py]

AbsDiff(a, b) == IF a < b THEN b - a ELSE a - b

(* -------------------------------- Maze -------------------------------- *)

\* Maze { horizontal_bars: [[false; 6]; 5], vertical_bars: [[false; 5]; 6] }
EmptyMaze ==
    [horizontal_bars |-> [y \in 0..4 |-> [x \in 0..5 |-> FALSE]],
     vertical_bars   |-> [y \in 0..5 |-> [x \in 0..4 |-> FALSE]]]

\* is_blocked with the result inverted.
is_blocked_inverted(m, from, to) ==
    IF from.x = to.x
    THEN ~m.horizontal_bars[Min(from.y, to.y)][from.x]
    ELSE ~m.vertical_bars[from.y][Min(from.x, to.x)]

\* Maze::is_blocked. The assert_eq! on the Manhattan distance is the
\* operator's precondition; AdjacentOk states it.
is_blocked(m, from, to) ==
    IF from.x = to.x
    THEN m.horizontal_bars[Min(from.y, to.y)][from.x]
    ELSE m.vertical_bars[from.y][Min(from.x, to.x)]

AdjacentOk(from, to) == AbsDiff(from.x, to.x) + AbsDiff(from.y, to.y) = 1

\* Maze::dfs: reachable is the set of cells marked true; the four
\* neighbours are tried in the source's order, each on the marks left by
\* the one before.
RECURSIVE dfs(_, _, _)
\* DfsTry that does not ask is_blocked.
DfsTryThrough(m, pos, next_pos, reachable) ==
    IF next_pos \notin reachable
    THEN dfs(m, next_pos, reachable)
    ELSE reachable

\* One of the four `if` blocks of dfs, for the neighbour next_pos.
DfsTry(m, pos, next_pos, reachable) ==
    IF next_pos \notin reachable /\ ~is_blocked(m, pos, next_pos)
    THEN dfs(m, next_pos, reachable)
    ELSE reachable

\* Each neighbour's search is finished before the next one starts, as in
\* the source: the tests r = {} never hold (pos is in r) and only make TLC
\* evaluate r there.
dfs(m, pos, reachable0) ==
    LET r0 == reachable0 \cup {pos}
        r1 == IF pos.x # 0 THEN DfsTry(m, pos, IVec2(pos.x - 1, pos.y), r0) ELSE r0
    IN IF r1 = {} THEN {} ELSE
    LET r2 == IF pos.x # 5 THEN DfsTry(m, pos, IVec2(pos.x + 1, pos.y), r1) ELSE r1
    IN IF r2 = {} THEN {} ELSE
    LET r3 == IF pos.y # 0 THEN DfsTry(m, pos, IVec2(pos.x, pos.y - 1), r2) ELSE r2
    IN IF r3 = {} THEN {} ELSE
       IF pos.y # 5 THEN DfsTry(m, pos, IVec2(pos.x, pos.y + 1), r3) ELSE r3

Cells == {IVec2(cx, cy) : cx \in 0..5, cy \in 0..5}

\* is_valid with the check dropped: every placement is kept.
is_valid_always(m) == dfs(m, IVec2(0, 0), {}) \subseteq Cells

\* is_valid that asks only whether the far corner was marked.
is_valid_far_corner(m) == IVec2(5, 5) \in dfs(m, IVec2(0, 0), {})

\* Maze::is_valid
is_valid(m) == dfs(m, IVec2(0, 0), {}) = Cells

\* thread_rng() is a generator seeded once per thread: its output is a
\* function of the seed. The model's stand-in is a 16-bit linear
\* congruential generator; the seed is the nondeterministic input.
NextRand(s) == (s * 25173 + 13849) % 65536

RandBelow(s, n) == (s \div 64) % n

\* GenPass that leaves a rejected barrier in place.
GenPassNoRevert(m, s) ==
    LET s1 == NextRand(s)
        s2 == NextRand(s1)
        s3 == NextRand(s2)
    IN IF RandBelow(s1, 2) = 1
       THEN LET gx == RandBelow(s2, 6)
                gy == RandBelow(s3, 5)
                set == [m EXCEPT !.horizontal_bars[gy][gx] = TRUE]
            IN IF ~m.horizontal_bars[gy][gx]
               THEN [maze |-> set, placed |-> is_valid(set), rng |-> s3]
               ELSE [maze |-> m, placed |-> FALSE, rng |-> s3]
       ELSE LET gx == RandBelow(s2, 5)
                gy == RandBelow(s3, 6)
                set == [m EXCEPT !.vertical_bars[gy][gx] = TRUE]
            IN IF ~m.vertical_bars[gy][gx]
               THEN [maze |-> set, placed |-> is_valid(set), rng |-> s3]
               ELSE [maze |-> m, placed |-> FALSE, rng |-> s3]

\* One pass of the inner `loop` of Maze::generate, for generator state s:
\* the maze after the pass and whether the pass ended in `break`.
GenPass(m, s) ==
    LET s1 == NextRand(s)
        s2 == NextRand(s1)
        s3 == NextRand(s2)
    IN IF RandBelow(s1, 2) = 1
       THEN LET gx == RandBelow(s2, 6)
                gy == RandBelow(s3, 5)
                set == [m EXCEPT !.horizontal_bars[gy][gx] = TRUE]
            IN IF ~m.horizontal_bars[gy][gx]
               THEN IF is_valid(set)
                    THEN [maze |-> set, placed |-> TRUE, rng |-> s3]
                    ELSE [maze |-> [set EXCEPT !.horizontal_bars[gy][gx] = FALSE],
                          placed |-> FALSE, rng |-> s3]
               ELSE [maze |-> m, placed |-> FALSE, rng |-> s3]
       ELSE LET gx == RandBelow(s2, 5)
                gy == RandBelow(s3, 6)
                set == [m EXCEPT !.vertical_bars[gy][gx] = TRUE]
            IN IF ~m.vertical_bars[gy][gx]
               THEN IF is_valid(set)
                    THEN [maze |-> set, placed |-> TRUE, rng |-> s3]
                    ELSE [maze |-> [set EXCEPT !.vertical_bars[gy][gx] = FALSE],
                          placed |-> FALSE, rng |-> s3]
               ELSE [maze |-> m, placed |-> FALSE, rng |-> s3]

BarrierCount(m) ==
    Cardinality({p \in (0..4) \X (0..5) : m.horizontal_bars[p[1]][p[2]]})
    + Cardinality({p \in (0..5) \X (0..4) : m.vertical_bars[p[1]][p[2]]})


(* ------------------------------- items -------------------------------- *)

\* items! { (Bracelet @ 2, 0), ... }: an Item is its position 0..23 in the
\* macro's list; ItemCoords[item + 1] is its cell.
ItemCoords ==
    << <<2, 0>>, <<3, 0>>, <<1, 1>>, <<2, 1>>, <<3, 1>>, <<4, 1>>,
       <<0, 2>>, <<1, 2>>, <<2, 2>>, <<3, 2>>, <<4, 2>>, <<5, 2>>,
       <<0, 3>>, <<1, 3>>, <<2, 3>>, <<3, 3>>, <<4, 3>>, <<5, 3>>,
       <<1, 4>>, <<2, 4>>, <<3, 4>>, <<4, 4>>, <<2, 5>>, <<3, 5>> >>

\* Item::ALL
ALL == [i \in 1..Len(ItemCoords) |-> i - 1]

\* Item::coords
coords(item) == IVec2(ItemCoords[item + 1][1], ItemCoords[item + 1][2])

\* Option<Item>: None is <<>>, Some(item) is <<item>>.
None == <<>>
Some(v) == <<v>>

\* take_random that returns the item and leaves it in the pool.
take_random_keep(items, pick) ==
    IF items = <<>>
    THEN [item |-> None, items |-> items]
    ELSE [item |-> Some(items[Min(pick, Len(items) - 1) + 1]), items |-> items]

\* AvailableItems::take_random, for the generator's draw pick: gen_range
\* yields an index below the length (a pick past the end counts as the last
\* index). The item taken (or None) and the items left.
take_random(items, pick) ==
    IF items = <<>>
    THEN [item |-> None, items |-> items]
    ELSE LET index == Min(pick, Len(items) - 1)
         IN [item |-> Some(items[index + 1]),
             items |-> SubSeq(items, 1, index) \o SubSeq(items, index + 2, Len(items))]

(* --------------------------- turn state ------------------------------- *)

\* TurnPhase::Rolling and TurnPhase::Moving { steps_taken }
Rolling == [tag |-> "Rolling", steps_taken |-> 0]
Moving(n) == [tag |-> "Moving", steps_taken |-> n]

\* The table of a six-sided die.
DiceTableD6 == <<1, 2, 3, 4, 5, 6>>

\* The table with every value one less.
DiceTableFromZero == <<0, 1, 1, 2, 2, 3>>

\* The table a roll draws from.
DiceTable == <<1, 2, 2, 3, 3, 4>>

\* MoveRequest::delta
delta(event) ==
    CASE event = "Up"    -> IVec2(0, 1)
      [] event = "Down"  -> IVec2(0, -1)
      [] event = "Left"  -> IVec2(-1, 0)
      [] event = "Right" -> IVec2(1, 0)

MoveRequests == {"Up", "Down", "Left", "Right"}

\* get_player_start_coords with the two coordinates exchanged.
get_player_start_coords_swapped(player_number) ==
    IVec2((player_number % 2) * (BOARD_SIZE - 1),
          (player_number \div 2) * (BOARD_SIZE - 1))

\* get_player_start_coords with BOARD_SIZE for BOARD_SIZE - 1.
get_player_start_coords_off(player_number) ==
    IVec2((player_number \div 2) * BOARD_SIZE, (player_number % 2) * BOARD_SIZE)

\* LabyrinthPlugin::get_player_start_coords
get_player_start_coords(player_number) ==
    IVec2((player_number \div 2) * (BOARD_SIZE - 1),
          (player_number % 2) * (BOARD_SIZE - 1))

\* The events the authority broadcasts (ToClients, SendMode::Broadcast).
GameStateEvent(s) == [type |-> "GameState", state |-> s]
TurnPhaseEvent(p) == [type |-> "TurnPhase", phase |-> p]
CurrentTurnEvent(t) == [type |-> "CurrentTurn", turn |-> t]
MoveAnimEvent(cid, f, to) ==
    [type |-> "PlayerStartMoveAnimation", client_id |-> cid, fail |-> f, move_to |-> to]

(* ---------------------- server_receive_requests ----------------------- *)

\* FindTurnPlayer without the test of player_number.
FindPlayerOfClient(players, client_id, turn) ==
    LET hits == {i \in 1..Len(players) : players[i].client_id = client_id}
    IN IF hits = {} THEN 0 ELSE CHOOSE i \in hits : \A j \in hits : i <= j

\* The index (in query order) of the first player with this connection
\* whose player_number is the current turn; 0 when there is none.
FindTurnPlayer(players, client_id, turn) ==
    LET hits == {i \in 1..Len(players) :
                    /\ players[i].client_id = client_id
                    /\ players[i].player_number = turn}
    IN IF hits = {} THEN 0 ELSE CHOOSE i \in hits : \A j \in hits : i <= j

\* The body of `for ... in roll_requests.read()` for one request; die is
\* the value the generator chooses from the dice table.
RollOne(h, client_id, die) ==
    IF h.turn_phase # Rolling
    THEN h
    ELSE IF FindTurnPlayer(h.players, client_id, h.current_turn) # 0
         THEN [h EXCEPT !.dice = die,
                        !.next_turn_phase = Some(Moving(0)),
                        !.sent = Append(@, TurnPhaseEvent(Moving(0))),
                        !.turn_phase = Moving(0)]
         ELSE h

RECURSIVE RollLoop(_, _, _)
RollLoop(h, requests, die) ==
    IF requests = <<>>
    THEN h
    ELSE RollLoop(RollOne(h, Head(requests), die), Tail(requests), die)

\* The win test with > for >=.
HasWonLate(achieved_items) == Len(achieved_items) > ITEMS_TO_WIN

\* `player.achieved_items.len() >= ITEMS_TO_WIN`
HasWon(achieved_items) == Len(achieved_items) >= ITEMS_TO_WIN

\* Win without the `return`.
WinNoReturn(h, i, achieved) ==
    [h EXCEPT !.players[i].achieved_items = achieved,
              !.players[i].target_item = None,
              !.next_game_state = "Win",
              !.sent = Append(@, GameStateEvent("Win"))]

\* Win that leaves the target in place.
WinKeepsTarget(h, i, achieved) ==
    [h EXCEPT !.players[i].achieved_items = achieved,
              !.next_game_state = "Win",
              !.sent = Append(@, GameStateEvent("Win")),
              !.returned = TRUE]

\* The winning branch of the pickup: clear the target, set and broadcast
\* GameState::Win, return.
Win(h, i, achieved) ==
    [h EXCEPT !.players[i].achieved_items = achieved,
              !.players[i].target_item = None,
              !.next_game_state = "Win",
              !.sent = Append(@, GameStateEvent("Win")),
              !.returned = TRUE]

\* Retarget that leaves the player without a target.
RetargetNone(h, i, achieved, t) ==
    [h EXCEPT !.players[i].achieved_items = achieved,
              !.players[i].target_item = None,
              !.available_items = t.items]

\* The other branch: the target becomes what take_random returned (t).
Retarget(h, i, achieved, t) ==
    [h EXCEPT !.players[i].achieved_items = achieved,
              !.players[i].target_item = t.item,
              !.available_items = t.items]

\* PickUp without the test of the win.
PickUpNoWin(h, i, pick) ==
    IF /\ h.players[i].target_item # None
       /\ h.players[i].coords = coords(h.players[i].target_item[1])
    THEN Retarget(h, i,
                  Append(h.players[i].achieved_items, h.players[i].target_item[1]),
                  take_random(h.available_items, pick))
    ELSE h

\* PickUp that compares the cell the player has left.
PickUpOnLeaving(h, i, pick) ==
    IF /\ h.players[i].target_item # None
       /\ h.players[i].prev_coords = coords(h.players[i].target_item[1])
    THEN IF HasWon(Append(h.players[i].achieved_items, h.players[i].target_item[1]))
         THEN Win(h, i, Append(h.players[i].achieved_items, h.players[i].target_item[1]))
         ELSE Retarget(h, i,
                       Append(h.players[i].achieved_items, h.players[i].target_item[1]),
                       take_random(h.available_items, pick))
    ELSE h

\* The pickup after a successful move of player i: the `if let
\* Some(target_item)` block.
PickUp(h, i, pick) ==
    IF /\ h.players[i].target_item # None
       /\ h.players[i].coords = coords(h.players[i].target_item[1])
    THEN IF HasWon(Append(h.players[i].achieved_items, h.players[i].target_item[1]))
         THEN Win(h, i, Append(h.players[i].achieved_items, h.players[i].target_item[1]))
         ELSE Retarget(h, i,
                       Append(h.players[i].achieved_items, h.players[i].target_item[1]),
                       take_random(h.available_items, pick))
    ELSE h

\* `(0..BOARD_SIZE as i32).contains(..)` for both coordinates.
InBoard(pos) == pos.x \in 0..(BOARD_SIZE - 1) /\ pos.y \in 0..(BOARD_SIZE - 1)

\* MoveTo without the test of the barrier.
MoveToThrough(h, m, i, next_pos, pick) ==
    PickUp([h EXCEPT
              !.players[i].prev_coords = h.players[i].coords,
              !.sent = Append(@, MoveAnimEvent(h.players[i].client_id, FALSE, next_pos)),
              !.players[i].coords = next_pos,
              !.new_steps_taken = @ + 1],
           i, pick)

\* The move of player i to the in-board cell next_pos: blocked (the
\* failing animation, the reset to the start cell, the steps forced to the
\* dice value) or clear (the animation, the step, the pickup).
MoveTo(h, m, i, next_pos, pick) ==
    IF is_blocked(m, h.players[i].coords, next_pos)
    THEN [h EXCEPT
            !.players[i].prev_coords = h.players[i].coords,
            !.sent = Append(@, MoveAnimEvent(h.players[i].client_id, TRUE, next_pos)),
            !.players[i].coords = get_player_start_coords(h.players[i].player_number),
            !.new_steps_taken = h.dice]
    ELSE PickUp([h EXCEPT
                   !.players[i].prev_coords = h.players[i].coords,
                   !.sent = Append(@, MoveAnimEvent(h.players[i].client_id, FALSE, next_pos)),
                   !.players[i].coords = next_pos,
                   !.new_steps_taken = @ + 1],
                i, pick)

\* `player.coords + event.delta()`
NextPos(player, event) ==
    IVec2(player.coords.x + delta(event).x, player.coords.y + delta(event).y)

\* MoveBy in which a request to leave the board uses up a step.
MoveByCharged(h, m, i, event, pick) ==
    IF i = 0
    THEN h
    ELSE IF ~InBoard(NextPos(h.players[i], event))
         THEN [h EXCEPT !.new_steps_taken = @ + 1]
         ELSE MoveTo(h, m, i, NextPos(h.players[i], event), pick)

\* The request of the turn's player i (0: the `else { continue }` of find).
MoveBy(h, m, i, event, pick) ==
    IF i = 0
    THEN h
    ELSE IF ~InBoard(NextPos(h.players[i], event))
         THEN h
         ELSE MoveTo(h, m, i, NextPos(h.players[i], event), pick)

\* MoveOne without the test of the steps against the dice value.
MoveOneUncapped(h, m, request, pick) ==
    MoveBy(h, m, FindTurnPlayer(h.players, request.client_id, h.current_turn),
           request.event, pick)

\* The body of `for ... in move_requests.read()` for one request.
MoveOne(h, m, request, pick) ==
    IF h.new_steps_taken >= h.dice
    THEN h
    ELSE MoveBy(h, m, FindTurnPlayer(h.players, request.client_id, h.current_turn),
                request.event, pick)

\* The move loop; `return` (the winning pickup) leaves the requests after
\* it unread.
RECURSIVE MoveLoop(_, _, _, _)
MoveLoop(h, m, requests, pick) ==
    IF requests = <<>> \/ h.returned
    THEN [h EXCEPT !.unread_moves = requests]
    ELSE MoveLoop(MoveOne(h, m, Head(requests), pick), m, Tail(requests), pick)

\* The next turn without the wrap-around.
NextTurnNoWrap(turn, player_count) == turn + 1

\* `(current_turn.0 + 1) % player_count.0`
NextTurn(turn, player_count) == (turn + 1) % player_count

\* EndOfMoves that ends the turn only when the steps exceed the dice value.
EndOfMovesLate(h, steps_taken, player_count) ==
    IF h.returned \/ h.new_steps_taken = steps_taken
    THEN h
    ELSE IF h.new_steps_taken > h.dice
         THEN [h EXCEPT !.current_turn = NextTurn(@, player_count),
                        !.sent = @ \o <<CurrentTurnEvent(NextTurn(h.current_turn, player_count)),
                                        TurnPhaseEvent(Rolling)>>,
                        !.next_turn_phase = Some(Rolling),
                        !.turn_phase = Rolling]
         ELSE [h EXCEPT !.next_turn_phase = Some(Moving(h.new_steps_taken)),
                        !.sent = Append(@, TurnPhaseEvent(Moving(h.new_steps_taken))),
                        !.turn_phase = Moving(h.new_steps_taken)]

\* EndOfMoves that passes the turn without the CurrentTurn broadcast.
EndOfMovesSilentTurn(h, steps_taken, player_count) ==
    IF h.returned \/ h.new_steps_taken = steps_taken
    THEN h
    ELSE IF h.new_steps_taken >= h.dice
         THEN [h EXCEPT !.current_turn = NextTurn(@, player_count),
                        !.sent = Append(@, TurnPhaseEvent(Rolling)),
                        !.next_turn_phase = Some(Rolling),
                        !.turn_phase = Rolling]
         ELSE [h EXCEPT !.next_turn_phase = Some(Moving(h.new_steps_taken)),
                        !.sent = Append(@, TurnPhaseEvent(Moving(h.new_steps_taken))),
                        !.turn_phase = Moving(h.new_steps_taken)]

\* EndOfMoves that clears the dice value when the turn passes.
EndOfMovesClearsDice(h, steps_taken, player_count) ==
    IF h.returned \/ h.new_steps_taken = steps_taken
    THEN h
    ELSE IF h.new_steps_taken >= h.dice
         THEN [h EXCEPT !.current_turn = NextTurn(@, player_count),
                        !.sent = @ \o <<CurrentTurnEvent(NextTurn(h.current_turn, player_count)),
                                        TurnPhaseEvent(Rolling)>>,
                        !.next_turn_phase = Some(Rolling),
                        !.turn_phase = Rolling,
                        !.dice = 0]
         ELSE [h EXCEPT !.next_turn_phase = Some(Moving(h.new_steps_taken)),
                        !.sent = Append(@, TurnPhaseEvent(Moving(h.new_steps_taken))),
                        !.turn_phase = Moving(h.new_steps_taken)]

\* The phase and turn transition after the move loop (not reached after
\* `return`).
EndOfMoves(h, steps_taken, player_count) ==
    IF h.returned \/ h.new_steps_taken = steps_taken
    THEN h
    ELSE IF h.new_steps_taken >= h.dice
         THEN [h EXCEPT !.current_turn = NextTurn(@, player_count),
                        !.sent = @ \o <<CurrentTurnEvent(NextTurn(h.current_turn, player_count)),
                                        TurnPhaseEvent(Rolling)>>,
                        !.next_turn_phase = Some(Rolling),
                        !.turn_phase = Rolling]
         ELSE [h EXCEPT !.next_turn_phase = Some(Moving(h.new_steps_taken)),
                        !.sent = Append(@, TurnPhaseEvent(Moving(h.new_steps_taken))),
                        !.turn_phase = Moving(h.new_steps_taken)]

\* The system's locals and outputs before the first request: the local
\* turn_phase, the NextState resources, the requests the readers have not
\* read (the roll reader reads all of them), the events sent.
Entry(a, moves) ==
    [players |-> a.players, dice |-> a.dice,
     turn_phase |-> a.turn_phase, current_turn |-> a.current_turn,
     available_items |-> a.available_items,
     next_turn_phase |-> None, next_game_state |-> "None",
     new_steps_taken |-> a.turn_phase.steps_taken, returned |-> FALSE,
     unread_rolls |-> <<>>, unread_moves |-> moves, sent |-> <<>>]

\* `if let TurnPhase::Moving { steps_taken } = turn_phase { ... }` on the
\* state h the roll loop left.
MovePart(h, m, player_count, moves, pick) ==
    IF h.turn_phase.tag = "Moving"
    THEN EndOfMoves(MoveLoop([h EXCEPT !.new_steps_taken = h.turn_phase.steps_taken],
                             m, moves, pick),
                    h.turn_phase.steps_taken, player_count)
    ELSE h

\* server_receive_requests with the move loop before the roll loop.
server_receive_requests_moves_first(a, m, player_count, rolls, moves, die, pick) ==
    RollLoop(MovePart(Entry(a, moves), m, player_count, moves, pick), rolls, die)

\* server_receive_requests on authority state a (players, dice,
\* turn_phase, current_turn, available_items) with the readable roll and
\* move requests, the maze m and the generator's draws die and pick.
server_receive_requests(a, m, player_count, rolls, moves, die, pick) ==
    MovePart(RollLoop(Entry(a, moves), rolls, die), m, player_count, moves, pick)

(* -------------------------- server_on_events -------------------------- *)

\* Player { client_id, coords, prev_coords, player_number, target_item,
\* achieved_items } as spawned for a ClientConnected event.
NewPlayer(client_id, num_existing_players, target) ==
    [client_id |-> client_id,
     coords |-> get_player_start_coords(num_existing_players),
     prev_coords |-> get_player_start_coords(num_existing_players),
     player_number |-> num_existing_players,
     target_item |-> target,
     achieved_items |-> <<>>]

\* OnConnected that leaves the drawn target in the pool.
OnConnectedKeepsPool(e, client_id, num_existing_players, player_limit, t) ==
    [e EXCEPT
       !.spawned = Append(@, NewPlayer(client_id, num_existing_players, t.item)),
       !.next_game_state =
           IF num_existing_players + 1 = player_limit THEN "InGame" ELSE @,
       !.sent = IF num_existing_players + 1 = player_limit
                THEN Append(@, GameStateEvent("InGame")) ELSE @]

\* ServerEvent::ClientConnected: t is what take_random returned.
OnConnected(e, client_id, num_existing_players, player_limit, t) ==
    [e EXCEPT
       !.spawned = Append(@, NewPlayer(client_id, num_existing_players, t.item)),
       !.available_items = t.items,
       !.next_game_state =
           IF num_existing_players + 1 = player_limit THEN "InGame" ELSE @,
       !.sent = IF num_existing_players + 1 = player_limit
                THEN Append(@, GameStateEvent("InGame")) ELSE @]

\* OnEvent that does nothing for a disconnect.
OnEventIgnoresDisconnect(e, event, num_existing_players, player_limit, pick) ==
    IF event.type = "ClientConnected"
    THEN OnConnected(e, event.client_id, num_existing_players, player_limit,
                     take_random(e.available_items, pick))
    ELSE e

\* The body of `for event in events.read()` for one event. The query
\* player_counter sees the entities that existed when the system started:
\* commands.spawn is deferred, so num_existing_players is the same for
\* every event of one frame. e.spawned are the queued spawn commands.
OnEvent(e, event, num_existing_players, player_limit, pick) ==
    IF event.type = "ClientConnected"
    THEN OnConnected(e, event.client_id, num_existing_players, player_limit,
                     take_random(e.available_items, pick))
    ELSE [e EXCEPT !.app_exit = TRUE]

RECURSIVE OnEvents(_, _, _, _, _)
OnEvents(e, events, num_existing_players, player_limit, pick) ==
    IF events = <<>>
    THEN e
    ELSE OnEvents(OnEvent(e, Head(events), num_existing_players, player_limit, pick),
                  Tail(events), num_existing_players, player_limit, pick)

\* server_on_events on the players and items of the frame, with the
\* NextState<GameState> left by the frame's StateTransition.
server_on_events(players, items, pending_state, events, player_limit, pick) ==
    OnEvents([spawned |-> <<>>, available_items |-> items,
              next_game_state |-> pending_state, app_exit |-> FALSE, sent |-> <<>>],
             events, Len(players), player_limit, pick)

(* ------------------------------- state -------------------------------- *)

VARIABLES
    pc,          \* "generate" (Startup, inside Maze::generate), "serve", "exit"
    num_tiles,   \* Cli::Server.tiles
    tiles_done,  \* iterations of `for _ in 0..num_tiles` completed
    rng,         \* the generator's state during Maze::generate; 0 afterwards
    maze,        \* the Maze resource
    max_players, \* the MaxPlayers resource
    players,     \* the Player entities, in spawn order
    dice,        \* Dice.value
    game_state,       \* State<GameState>
    next_game_state,  \* NextState<GameState>: "None" or the state set
    turn_phase,       \* State<TurnPhase>
    current_turn,     \* CurrentTurn
    available_items,  \* AvailableItems
    accepted,    \* connections the transport has accepted so far
    server_events,    \* Events<ServerEvent> not yet read
    roll_old, roll_new,  \* Events<FromClient<DiceRollRequest>>: the two buffers
    move_old, move_new,  \* Events<FromClient<MoveRequest>>: the two buffers
    handovers    \* times the turn has passed to another index

gen_vars == <<num_tiles, tiles_done, rng, maze>>
authority_vars == <<players, dice, game_state, next_game_state, turn_phase,
                    current_turn, available_items>>
buffer_vars == <<server_events, roll_old, roll_new, move_old, move_new>>
vars == <<pc, gen_vars, max_players, authority_vars, accepted, buffer_vars, handovers>>

\* The k-th connection's identifier (ClientId::raw).
ClientIdOf(k) == 100 + k

InFlight ==
    Len(server_events) + Len(roll_old) + Len(roll_new) + Len(move_old) + Len(move_new)

InitSession ==
    /\ pc = "generate"
    /\ tiles_done = 0
    /\ maze = EmptyMaze
    /\ players = <<>>
    /\ dice = 0
    /\ game_state = "WaitingPlayers"
    /\ next_game_state = "None"
    /\ turn_phase = Rolling
    /\ current_turn = 0
    /\ available_items = ALL
    /\ accepted = 0
    /\ server_events = <<>>
    /\ roll_old = <<>> /\ roll_new = <<>>
    /\ move_old = <<>> /\ move_new = <<>>
    /\ handovers = 0

Init ==
    /\ InitSession
    /\ num_tiles \in MinTiles .. Min(MinTiles + TileChoices - 1, MaxTiles)
    /\ rng \in 1..NumSeeds
    /\ max_players \in MinPlayersArg .. Min(PlayersBound, MaxPlayersArg)

\* One pass of the inner loop of Maze::generate; the pass that places the
\* last barrier returns the maze and ends Startup.
GenStep ==
    /\ pc = "generate"
    /\ LET r == GenPass(maze, rng)
           done == IF r.placed THEN tiles_done + 1 ELSE tiles_done
       IN /\ maze' = r.maze
          /\ tiles_done' = done
          /\ pc' = IF done = num_tiles THEN "serve" ELSE "generate"
          /\ rng' = IF done = num_tiles THEN 0 ELSE r.rng
    /\ UNCHANGED <<num_tiles, max_players, authority_vars, accepted, buffer_vars, handovers>>

\* The transport accepts a connection (at most max_clients = max_players)
\* and queues its notification.
Connect ==
    /\ pc = "serve"
    /\ accepted < max_players
    /\ InFlight < MaxInFlight
    /\ accepted' = accepted + 1
    /\ server_events' = Append(server_events,
                               [type |-> "ClientConnected", client_id |-> ClientIdOf(accepted + 1)])
    /\ UNCHANGED <<pc, gen_vars, max_players, authority_vars, roll_old, roll_new,
                   move_old, move_new, handovers>>

\* A connection closes: the transport queues its notification.
Disconnect(k) ==
    /\ pc = "serve"
    /\ k \in 1..accepted
    /\ InFlight < MaxInFlight
    /\ \A i \in 1..Len(server_events) :
          ~(server_events[i].type = "ClientDisconnected"
            /\ server_events[i].client_id = ClientIdOf(k))
    /\ server_events' = Append(server_events,
                               [type |-> "ClientDisconnected", client_id |-> ClientIdOf(k)])
    /\ UNCHANGED <<pc, gen_vars, max_players, authority_vars, accepted, roll_old, roll_new,
                   move_old, move_new, handovers>>

\* A presentation process's DiceRollRequest arrives.
SendRoll(k) ==
    /\ pc = "serve"
    /\ k \in 1..accepted
    /\ InFlight < MaxInFlight
    /\ handovers < MaxHandovers
    /\ roll_new' = Append(roll_new, ClientIdOf(k))
    /\ UNCHANGED <<pc, gen_vars, max_players, authority_vars, accepted, server_events,
                   roll_old, move_old, move_new, handovers>>

\* A presentation process's MoveRequest arrives.
SendMove(k, event) ==
    /\ pc = "serve"
    /\ k \in 1..accepted
    /\ InFlight < MaxInFlight
    /\ handovers < MaxHandovers
    /\ move_new' = Append(move_new, [client_id |-> ClientIdOf(k), event |-> event])
    /\ UNCHANGED <<pc, gen_vars, max_players, authority_vars, accepted, server_events,
                   roll_old, roll_new, move_old, handovers>>

Authority ==
    [players |-> players, dice |-> dice, turn_phase |-> turn_phase,
     current_turn |-> current_turn, available_items |-> available_items]

\* The requests an EventReader that has read nothing since the buffers
\* were last drained can read: the older buffer, then the newer one.
ReadableRolls == roll_old \o roll_new
ReadableMoves == move_old \o move_new

\* What server_receive_requests does in the frame that starts in the
\* current state, when it runs.
Received(die, pick) ==
    server_receive_requests(Authority, maze, max_players,
                            ReadableRolls, ReadableMoves, die, pick)

\* PreUpdate: the system runs only in_state(GameState::InGame); when it
\* does not, nothing is read and nothing changes.
PreUpdate(die, pick) ==
    IF game_state = "InGame"
    THEN Received(die, pick)
    ELSE [Entry(Authority, ReadableMoves) EXCEPT !.unread_rolls = ReadableRolls]

\* StateTransition and the frame's result, from what PreUpdate (h) and
\* Update (e) did.
EndOfFrame(h, e) ==
    [players |-> h.players \o e.spawned,
     dice |-> h.dice,
     game_state |-> IF h.next_game_state # "None" THEN h.next_game_state
                    ELSE IF next_game_state # "None" THEN next_game_state
                    ELSE game_state,
     next_game_state |-> e.next_game_state,
     turn_phase |-> IF h.next_turn_phase # None THEN h.next_turn_phase[1] ELSE turn_phase,
     current_turn |-> h.current_turn,
     available_items |-> e.available_items,
     app_exit |-> e.app_exit,
     unread_rolls |-> h.unread_rolls,
     unread_moves |-> h.unread_moves,
     sent |-> h.sent \o e.sent]

\* Update, after PreUpdate left h.
UpdateAfter(h, pick) ==
    EndOfFrame(h, server_on_events(h.players, h.available_items, "None",
                                   server_events, max_players, pick))

\* The authority's state at the end of the frame that starts in the current
\* state, for the generator's draws die and pick: PreUpdate, then
\* StateTransition, then Update. sent lists the frame's broadcasts.
FrameOutcome(die, pick) == UpdateAfter(PreUpdate(die, pick), pick)

\* The two buffers of an event type after a frame whose reader left
\* `unread` of the readable events old \o new: nothing is kept of what was
\* read; Events::update, when it runs before the next frame, drops the
\* older buffer.
BuffersAfter(old, new, unread, update) ==
    IF unread = <<>>
    THEN <<(<<>>), (<<>>)>>
    ELSE IF unread # old \o new
         THEN <<unread, (<<>>)>>
         ELSE IF update THEN <<new, (<<>>)>> ELSE <<old, new>>

\* The frame's result o becomes the state; update tells whether
\* Events::update runs before the next frame.
Apply(o, update) ==
    /\ players' = o.players
    /\ dice' = o.dice
    /\ game_state' = o.game_state
    /\ next_game_state' = o.next_game_state
    /\ turn_phase' = o.turn_phase
    /\ current_turn' = o.current_turn
    /\ available_items' = o.available_items
    /\ handovers' = IF o.current_turn # current_turn THEN handovers + 1 ELSE handovers
    /\ server_events' = <<>>
    /\ pc' = IF o.app_exit THEN "exit" ELSE "serve"
    /\ roll_old' = BuffersAfter(roll_old, roll_new, o.unread_rolls, update)[1]
    /\ roll_new' = BuffersAfter(roll_old, roll_new, o.unread_rolls, update)[2]
    /\ move_old' = BuffersAfter(move_old, move_new, o.unread_moves, update)[1]
    /\ move_new' = BuffersAfter(move_old, move_new, o.unread_moves, update)[2]

\* One frame of the authority. die and pick are the generator's draws.
Frame(die, pick, update) ==
    /\ pc = "serve"
    /\ Apply(FrameOutcome(die, pick), update)
    /\ UNCHANGED <<gen_vars, max_players, accepted>>

\* The values a roll can draw in the model, and the indices take_random can.
Dies == {DiceTable[d] : d \in 1..Min(DiceChoices, Len(DiceTable))}
Picks == 0..(RandChoices - 1)

Next ==
    \/ GenStep
    \/ Connect
    \/ \E k \in 1..MaxPlayersArg : Disconnect(k)
    \/ \E k \in 1..MaxPlayersArg : SendRoll(k)
    \/ \E k \in 1..MaxPlayersArg, event \in MoveRequests : SendMove(k, event)
    \/ \E die \in Dies, pick \in Picks, update \in BOOLEAN : Frame(die, pick, update)

Spec == Init /\ [][Next]_vars

(* ------------------------------ claims -------------------------------- *)

\* The cells one unbarred step away from cell c: a horizontal barrier
\* [y][x] lies between (x, y) and (x, y + 1), a vertical barrier [y][x]
\* between (x, y) and (x + 1, y).
OpenNeighbours(m, c) ==
    (IF c.x < 5 /\ ~m.vertical_bars[c.y][c.x] THEN {IVec2(c.x + 1, c.y)} ELSE {})
    \cup (IF c.x > 0 /\ ~m.vertical_bars[c.y][c.x - 1] THEN {IVec2(c.x - 1, c.y)} ELSE {})
    \cup (IF c.y < 5 /\ ~m.horizontal_bars[c.y][c.x] THEN {IVec2(c.x, c.y + 1)} ELSE {})
    \cup (IF c.y > 0 /\ ~m.horizontal_bars[c.y - 1][c.x] THEN {IVec2(c.x, c.y - 1)} ELSE {})

RECURSIVE Flood(_, _, _)
Flood(m, frontier, seen) ==
    IF frontier = {}
    THEN seen
    ELSE Flood(m, UNION {OpenNeighbours(m, f) : f \in frontier} \ seen,
               seen \cup UNION {OpenNeighbours(m, f) : f \in frontier})

\* Every cell is reachable from every other over unbarred edges (the edges
\* are undirected, so one flood from any cell decides it).
FullyConnected(m) == Flood(m, {IVec2(5, 5)}, {IVec2(5, 5)}) = Cells

(* --------------------- client_on_rep_game_state ----------------------- *)

\* The values a client holds of the three replicated states.
View(state, phase, turn) ==
    [game_state |-> state, turn_phase |-> phase, current_turn |-> turn]

\* `read().last()` of the events of one type in a batch: None or Some(the
\* last of them).
LastOf(batch, type) ==
    IF \E n \in 1..Len(batch) : batch[n].type = type
    THEN Some(batch[CHOOSE n \in 1..Len(batch) :
                        /\ batch[n].type = type
                        /\ \A k \in (n + 1)..Len(batch) : batch[k].type # type])
    ELSE None

\* client_on_rep_game_state on view v for one batch of delivered events.
client_on_rep_game_state(v, batch) ==
    View(IF LastOf(batch, "GameState") # None
         THEN LastOf(batch, "GameState")[1].state ELSE v.game_state,
         IF LastOf(batch, "TurnPhase") # None
         THEN LastOf(batch, "TurnPhase")[1].phase ELSE v.turn_phase,
         IF LastOf(batch, "CurrentTurn") # None
         THEN LastOf(batch, "CurrentTurn")[1].turn ELSE v.current_turn)

(* ---------------------------- generation ------------------------------ *)

\* Startup alone, for every tile count the command line accepts.
InitGen ==
    /\ InitSession
    /\ num_tiles \in MinTiles..MaxTiles
    /\ rng \in 1..GenSeeds
    /\ max_players = MinPlayersArg

NextGen == GenStep

SpecGen == InitGen /\ [][NextGen]_vars

\* The maze on which the pass from generator state s calls is_valid: m
\* with the barrier at the position drawn set.
Candidate(m, s) ==
    IF RandBelow(NextRand(s), 2) = 1
    THEN [m EXCEPT !.horizontal_bars[RandBelow(NextRand(NextRand(NextRand(s))), 5)]
                                    [RandBelow(NextRand(NextRand(s)), 6)] = TRUE]
    ELSE [m EXCEPT !.vertical_bars[RandBelow(NextRand(NextRand(NextRand(s))), 6)]
                                  [RandBelow(NextRand(NextRand(s)), 5)] = TRUE]

(* ----------------------------- late game ------------------------------ *)

\* Maze::generate run to its end from generator state s0.
RECURSIVE Generate(_, _, _, _)
Generate(m, s, done, n) ==
    IF done = n
    THEN m
    ELSE Generate(GenPass(m, s).maze, GenPass(m, s).rng,
                  IF GenPass(m, s).placed THEN done + 1 ELSE done, n)

GeneratedMaze == Generate(EmptyMaze, 1, 0, MinTiles)

\* The cells from which a player can step onto the cell of an item, having
\* come there from some third cell.
CellsBefore(item) ==
    {c \in OpenNeighbours(GeneratedMaze, coords(item)) :
        OpenNeighbours(GeneratedMaze, c) \ {coords(item)} # {}}

\* A player late in a game: four achieved items, the target one step away.
LatePlayer(n, c, target, achieved) ==
    [client_id |-> ClientIdOf(n + 1),
     coords |-> c,
     prev_coords |-> CHOOSE p \in OpenNeighbours(GeneratedMaze, c) \ {coords(target)} : TRUE,
     player_number |-> n,
     target_item |-> Some(target),
     achieved_items |-> achieved]

\* A game of two players as it stands after many turns: both players were
\* accepted in separate frames, each has picked up four items and stands
\* one step from the cell of their fifth; the pool holds the other
\* fourteen items; the first player is to roll.
InitLate ==
    /\ pc = "serve"
    /\ num_tiles = MinTiles /\ tiles_done = MinTiles /\ rng = 0
    /\ maze = GeneratedMaze
    /\ max_players = 2 /\ accepted = 2
    /\ \E c0 \in CellsBefore(0), c1 \in CellsBefore(1) :
          players = <<LatePlayer(0, c0, 0, <<2, 3, 4, 5>>),
                      LatePlayer(1, c1, 1, <<6, 7, 8, 9>>)>>
    /\ dice \in Dies
    /\ game_state = "InGame"
    /\ next_game_state = "None"
    /\ turn_phase = Rolling
    /\ current_turn = 0
    /\ available_items = SubSeq(ALL, 11, Len(ALL))
    /\ server_events = <<>>
    /\ roll_old = <<>> /\ roll_new = <<>>
    /\ move_old = <<>> /\ move_new = <<>>
    /\ handovers = 0

NextLate ==
    \/ \E k \in 1..MaxPlayersArg : Disconnect(k)
    \/ \E k \in 1..MaxPlayersArg : SendRoll(k)
    \/ \E k \in 1..MaxPlayersArg, event \in MoveRequests : SendMove(k, event)
    \/ \E die \in Dies, pick \in Picks, update \in BOOLEAN : Frame(die, pick, update)

SpecLate == InitLate /\ [][NextLate]_vars

\* The index whose turn it is after MaxHandovers - 2 handovers from index 0
\* in a game of four players.
CrowdedTurn == (MaxHandovers - 2) % MaxPlayersArg

\* The items player n of the crowded game has picked up: items 4n+4 ..
\* 4n+7, without the last of them for the player whose turn it is.
CrowdedAchieved(n) ==
    [k \in 1..(IF n = CrowdedTurn THEN 3 ELSE 4) |-> 4 * n + 3 + k]

\* A game of four players as it stands when the pool is at its smallest
\* before a draw: the players were accepted in separate frames, the turn
\* has passed MaxHandovers - 2 times, the player whose turn it is has
\* picked up three items and the others four each, every player stands one
\* step from the cell of their target; the pool holds the other five items.
InitCrowded ==
    /\ pc = "serve"
    /\ num_tiles = MinTiles /\ tiles_done = MinTiles /\ rng = 0
    /\ maze = GeneratedMaze
    /\ max_players = MaxPlayersArg /\ accepted = MaxPlayersArg
    /\ players = [n \in 1..MaxPlayersArg |->
                    LatePlayer(n - 1, CHOOSE c \in CellsBefore(n - 1) : TRUE,
                               n - 1, CrowdedAchieved(n - 1))]
    /\ dice \in Dies
    /\ game_state = "InGame"
    /\ next_game_state = "None"
    /\ turn_phase = Rolling
    /\ current_turn = CrowdedTurn
    /\ available_items = <<4 * CrowdedTurn + 7>> \o SubSeq(ALL, 21, Len(ALL))
    /\ server_events = <<>>
    /\ roll_old = <<>> /\ roll_new = <<>>
    /\ move_old = <<>> /\ move_new = <<>>
    /\ handovers = MaxHandovers - 2

SpecCrowded == InitCrowded /\ [][NextLate]_vars

AllDies == {DiceTable[d] : d \in 1..Len(DiceTable)}

\* Whether a barrier lies between the adjacent cells a and b.
Barred(m, a, b) == b \notin OpenNeighbours(m, a)

\* The start cell of player index n: ((n div 2) * 5, (n mod 2) * 5).
StartCell(n) == IVec2((n \div 2) * 5, (n % 2) * 5)

\* The connection holds the turn: it has a player whose index is CurrentTurn.
HoldsTurn(client_id) ==
    \E i \in 1..Len(players) :
        players[i].client_id = client_id /\ players[i].player_number = current_turn

\* The handler's state after its roll loop.
AfterRolls(die) == RollLoop(Entry(Authority, ReadableMoves), ReadableRolls, die)

\* The handler's state when it comes to the k-th readable move request.
BeforeMove(k, die, pick) ==
    MoveLoop(AfterRolls(die), maze, SubSeq(ReadableMoves, 1, k - 1), pick)

\* The cell next to c in the direction of a move request.
Step(c, event) ==
    IVec2(c.x + (CASE event = "Left" -> -1 [] event = "Right" -> 1 [] OTHER -> 0),
          c.y + (CASE event = "Down" -> -1 [] event = "Up" -> 1 [] OTHER -> 0))

\* The cell a move request asks player p to enter.
Target(p, request) == Step(p.coords, request.event)

\* The cell reached from c by the first n of the requests when each of
\* them is a legal move (into the board, across no barrier); None otherwise.
RECURSIVE Walk(_, _, _)
Walk(c, requests, n) ==
    IF n = 0
    THEN Some(c)
    ELSE IF InBoard(Step(c, Head(requests).event))
            /\ ~Barred(maze, c, Step(c, Head(requests).event))
         THEN Walk(Step(c, Head(requests).event), Tail(requests), n - 1)
         ELSE None

\* The elements of a sequence.
Range(seq) == {seq[n] : n \in 1..Len(seq)}

\* What the handler decides and sends.
Decided(h) ==
    <<h.players, h.dice, h.turn_phase, h.current_turn, h.available_items,
      h.next_turn_phase, h.next_game_state, h.sent>>

\* C2: GameState is set to InGame in exactly the frame in which the n-th
\* connection is accepted (n the configured player count), and in no
\* other, however the notifications are batched into frames.
C2_StartsWithLastAccept ==
    [][ (Len(players) < max_players /\ Len(players') >= max_players)
        <=> (next_game_state # "InGame" /\ next_game_state' = "InGame") ]_vars

\* C3: the player created for the k-th accepted connection has player
\* index k - 1, so no two players share an index or a start cell.
C3_IndexIsAcceptOrder ==
    /\ \A i \in 1..Len(players) : players[i].player_number = i - 1
    /\ \A i, j \in 1..Len(players) :
          i # j => /\ players[i].player_number # players[j].player_number
                   /\ get_player_start_coords(players[i].player_number)
                         # get_player_start_coords(players[j].player_number)

\* The handler, at the k-th readable move request, finds it to be an
\* in-bounds move of turn holder i across a set barrier, in a phase
\* Moving(n) with n below the dice value.
C4_Case(i, k, die, pick) ==
    /\ BeforeMove(k, die, pick).turn_phase.tag = "Moving"
    /\ ~BeforeMove(k, die, pick).returned
    /\ BeforeMove(k, die, pick).new_steps_taken < BeforeMove(k, die, pick).dice
    /\ players[i].client_id = ReadableMoves[k].client_id
    /\ players[i].player_number = current_turn
    /\ InBoard(Target(BeforeMove(k, die, pick).players[i], ReadableMoves[k]))
    /\ Barred(maze, BeforeMove(k, die, pick).players[i].coords,
              Target(BeforeMove(k, die, pick).players[i], ReadableMoves[k]))

\* C4: when the handler comes to an in-bounds move request of the turn
\* holder across a set barrier, in phase Moving(n) with n below the dice
\* value, then at the end of that frame the mover stands on the start cell
\* of their index, the phase is Rolling and the turn is the next index.
C4_BlockedMoveEndsTurn ==
    game_state = "InGame" =>
        \A die \in AllDies, pick \in Picks, k \in 1..Len(ReadableMoves) :
            \A i \in 1..Len(players) :
                C4_Case(i, k, die, pick)
                => /\ FrameOutcome(die, pick).players[i].coords
                         = StartCell(players[i].player_number)
                   /\ FrameOutcome(die, pick).turn_phase = Rolling
                   /\ FrameOutcome(die, pick).current_turn
                         = (current_turn + 1) % max_players

\* C4's case: in a game of several players the turn holder, away from
\* their start cell, asks to cross a barrier, and the frame puts them back
\* on the start cell.
C4_Witness ==
    /\ game_state = "InGame" /\ max_players >= 2
    /\ \E die \in Dies, pick \in Picks, k \in 1..Len(ReadableMoves) :
          \E i \in 1..Len(players) :
              /\ C4_Case(i, k, die, pick)
              /\ BeforeMove(k, die, pick).players[i].coords
                    # StartCell(players[i].player_number)
              /\ FrameOutcome(die, pick).players[i].coords
                    = StartCell(players[i].player_number)

\* C5: a player with five achieved items means GameState is Win, and once
\* GameState is Win no frame, whatever requests and notifications it
\* handles, leaves it anything else.
C5_WinIsTerminal ==
    /\ \A i \in 1..Len(players) :
          Len(players[i].achieved_items) >= 5 => game_state = "Win"
    /\ (game_state = "Win" /\ pc = "serve") =>
          \A die \in AllDies, pick \in Picks : FrameOutcome(die, pick).game_state = "Win"

\* C5's case: the game is won and requests are waiting to be handled.
C5_Witness ==
    /\ game_state = "Win" /\ pc = "serve"
    /\ \E i \in 1..Len(players) : Len(players[i].achieved_items) = 5
    /\ ReadableRolls # <<>> /\ ReadableMoves # <<>>

\* C6: CurrentTurn starts at 0, and a frame that changes it takes it from
\* t to (t + 1) mod player_count, ending a Moving phase (the phase was
\* Moving, or became Moving by a roll of that frame, and is Rolling after).
\* So the turn has been passed handovers times from index 0, in order.
C6_RoundRobin ==
    /\ current_turn \in 0..(max_players - 1)
    /\ current_turn = handovers % max_players
    /\ pc = "serve" =>
          \A die \in AllDies, pick \in Picks :
              FrameOutcome(die, pick).current_turn # current_turn
              => /\ FrameOutcome(die, pick).current_turn = (current_turn + 1) % max_players
                 /\ FrameOutcome(die, pick).turn_phase = Rolling
                 /\ game_state = "InGame"
                 /\ AfterRolls(die).turn_phase.tag = "Moving"

\* C6's case: with two players the turn has gone round: 0, 1, 0.
C6_Witness == max_players = 2 /\ handovers = 2 /\ current_turn = 0

\* The number of the readable move requests the dice value leaves room for
\* after the frame's roll loop.
C7_Take(die) ==
    Min(Len(ReadableMoves),
        AfterRolls(die).dice - AfterRolls(die).turn_phase.steps_taken)

\* After the frame's roll loop the phase is Moving, and the readable move
\* requests that the dice value leaves room for are all requests of turn
\* holder i for legal moves, none of which completes a win.
C7_Case(i, die, pick) ==
    /\ game_state = "InGame"
    /\ AfterRolls(die).turn_phase.tag = "Moving"
    /\ ReadableMoves # <<>>
    /\ players[i].player_number = current_turn
    /\ \A k \in 1..C7_Take(die) : ReadableMoves[k].client_id = players[i].client_id
    /\ Walk(players[i].coords, ReadableMoves, C7_Take(die)) # None
    /\ FrameOutcome(die, pick).game_state = "InGame"

\* C7: legal non-winning moves of the turn holder each add one step: when
\* they bring the steps to the dice value the frame ends in phase Rolling
\* with the turn passed on, and before that in Moving(n + moves) with the
\* turn unchanged; the mover stands where the moves lead.
C7_LegalMovesCount ==
    \A die \in AllDies, pick \in Picks, i \in 1..Len(players) :
        C7_Case(i, die, pick)
        => /\ FrameOutcome(die, pick).players[i].coords
                 = Walk(players[i].coords, ReadableMoves, C7_Take(die))[1]
           /\ IF AfterRolls(die).turn_phase.steps_taken + C7_Take(die)
                    = AfterRolls(die).dice
              THEN /\ FrameOutcome(die, pick).turn_phase = Rolling
                   /\ FrameOutcome(die, pick).current_turn
                         = (current_turn + 1) % max_players
              ELSE /\ FrameOutcome(die, pick).turn_phase
                         = Moving(AfterRolls(die).turn_phase.steps_taken + C7_Take(die))
                   /\ FrameOutcome(die, pick).current_turn = current_turn

\* C7's case: in a game of several players, a dice value of 2 or more is
\* used up by legal moves, the last of them after a step already taken.
C7_Witness ==
    /\ max_players >= 2
    /\ turn_phase.tag = "Moving" /\ turn_phase.steps_taken >= 1
    /\ \E die \in Dies, pick \in Picks, i \in 1..Len(players) :
          /\ C7_Case(i, die, pick)
          /\ turn_phase.steps_taken + C7_Take(die) = dice
          /\ FrameOutcome(die, pick).current_turn # current_turn

\* The frame's roll loop took effect.
C8_Effective(die) ==
    \/ AfterRolls(die).turn_phase # turn_phase
    \/ AfterRolls(die).sent # <<>>
    \/ AfterRolls(die).next_turn_phase # None

\* C8: the roll loop takes effect exactly when the phase is Rolling and a
\* readable roll request comes from the turn holder; then the dice value is
\* one of 1, 2, 3, 4, the phase Moving(0) and the turn unchanged; otherwise
\* the dice value stays.
C8_RollOnlyByHolderInRolling ==
    game_state = "InGame" =>
        \A die \in AllDies :
            /\ C8_Effective(die)
                  <=> (turn_phase = Rolling /\ \E r \in Range(ReadableRolls) : HoldsTurn(r))
            /\ C8_Effective(die)
                  => /\ AfterRolls(die).dice \in {1, 2, 3, 4}
                     /\ AfterRolls(die).turn_phase = Moving(0)
                     /\ AfterRolls(die).next_turn_phase = Some(Moving(0))
                     /\ AfterRolls(die).current_turn = current_turn
                     /\ AfterRolls(die).players = players
            /\ ~C8_Effective(die) => AfterRolls(die).dice = dice

\* C8's case: the turn holder of a game of several players rolls in phase
\* Rolling, another player's roll request being readable too.
C8_Witness ==
    /\ game_state = "InGame" /\ max_players >= 2 /\ turn_phase = Rolling
    /\ \E r \in Range(ReadableRolls) : HoldsTurn(r)
    /\ \E r \in Range(ReadableRolls) : ~HoldsTurn(r)
    /\ \A die \in Dies : C8_Effective(die)

\* The handler, at the k-th readable move request, finds it to be a legal
\* move of turn holder i, with steps left.
C9_Case(i, k, die, pick) ==
    /\ BeforeMove(k, die, pick).turn_phase.tag = "Moving"
    /\ ~BeforeMove(k, die, pick).returned
    /\ BeforeMove(k, die, pick).new_steps_taken < BeforeMove(k, die, pick).dice
    /\ players[i].client_id = ReadableMoves[k].client_id
    /\ players[i].player_number = current_turn
    /\ InBoard(Target(BeforeMove(k, die, pick).players[i], ReadableMoves[k]))
    /\ ~Barred(maze, BeforeMove(k, die, pick).players[i].coords,
               Target(BeforeMove(k, die, pick).players[i], ReadableMoves[k]))

\* The move of C9_Case lands on the cell of the mover's target item.
C9_OnTarget(i, k, die, pick) ==
    /\ BeforeMove(k, die, pick).players[i].target_item # None
    /\ Target(BeforeMove(k, die, pick).players[i], ReadableMoves[k])
          = coords(BeforeMove(k, die, pick).players[i].target_item[1])

\* What C9 says of player p and pool before the move, and player q and
\* pool after it.
C9_PickedUp(p, pool, q, pool_after) ==
    /\ q.achieved_items = Append(p.achieved_items, p.target_item[1])
    /\ Len(q.achieved_items) < 5
          => /\ q.target_item # None
             /\ q.target_item[1] \in Range(pool)
             /\ Len(pool_after) = Len(pool) - 1
             /\ Range(pool_after) = Range(pool) \ {q.target_item[1]}

\* C9: a move onto the cell of the mover's target item appends that item
\* to their achieved list and, below five achieved items, gives them a new
\* target that was in the pool and is removed from it; a move onto any
\* other cell leaves target, achieved list and pool as they were.
C9_PickUp ==
    game_state = "InGame" =>
        \A die \in AllDies, pick \in Picks, k \in 1..Len(ReadableMoves) :
            \A i \in 1..Len(players) :
                C9_Case(i, k, die, pick)
                => IF C9_OnTarget(i, k, die, pick)
                   THEN C9_PickedUp(BeforeMove(k, die, pick).players[i],
                                    BeforeMove(k, die, pick).available_items,
                                    BeforeMove(k + 1, die, pick).players[i],
                                    BeforeMove(k + 1, die, pick).available_items)
                   ELSE /\ BeforeMove(k + 1, die, pick).players[i].target_item
                              = BeforeMove(k, die, pick).players[i].target_item
                        /\ BeforeMove(k + 1, die, pick).players[i].achieved_items
                              = BeforeMove(k, die, pick).players[i].achieved_items
                        /\ BeforeMove(k + 1, die, pick).available_items
                              = BeforeMove(k, die, pick).available_items

\* C9's case: a player picks up their second item and gets a third target.
C9_Witness ==
    /\ game_state = "InGame"
    /\ \E die \in Dies, pick \in Picks, k \in 1..Len(ReadableMoves) :
          \E i \in 1..Len(players) :
              /\ C9_Case(i, k, die, pick)
              /\ C9_OnTarget(i, k, die, pick)
              /\ Len(BeforeMove(k + 1, die, pick).players[i].achieved_items) = 2
              /\ BeforeMove(k + 1, die, pick).players[i].target_item # None

\* The readable requests of the connections that hold the turn.
HolderRolls == SelectSeq(ReadableRolls, HoldsTurn)
HolderMoves == SelectSeq(ReadableMoves, LAMBDA request : HoldsTurn(request.client_id))

\* C10: the handler decides and sends the same with the requests of the
\* connections that do not hold the turn as without them, and with no
\* request of a turn holder it changes nothing and sends nothing.
C10_OthersIgnored ==
    game_state = "InGame" =>
        \A die \in AllDies, pick \in Picks :
            /\ Decided(Received(die, pick))
                  = Decided(server_receive_requests(Authority, maze, max_players,
                                                    HolderRolls, HolderMoves, die, pick))
            /\ (HolderRolls = <<>> /\ HolderMoves = <<>>)
                  => Decided(Received(die, pick))
                        = <<players, dice, turn_phase, current_turn, available_items,
                            None, "None", <<>>>>

\* C10's case: in phase Moving a roll request and a move request of a
\* connection that does not hold the turn are readable.
C10_Witness ==
    /\ game_state = "InGame" /\ turn_phase.tag = "Moving"
    /\ \E r \in Range(ReadableRolls) : ~HoldsTurn(r)
    /\ \E request \in Range(ReadableMoves) : ~HoldsTurn(request.client_id)

\* A step of the authority's frame loop: the only steps in which no
\* notification or request arrives.
FrameStep ==
    /\ pc = "serve"
    /\ Len(server_events') <= Len(server_events)
    /\ Len(roll_new') <= Len(roll_new)
    /\ Len(move_new') <= Len(move_new)
    /\ accepted' = accepted

\* The phase after the roll loop of the frame that starts in the current
\* state (the dice value drawn does not matter to it).
PhaseAfterRolls == AfterRolls(1).turn_phase

\* C11: a frame in which the handler runs drops the requests of the wrong
\* phase: roll requests readable in phase Moving and move requests readable
\* when the phase after the roll loop is Rolling change nothing in that
\* frame and are readable in no later frame.
C11_WrongPhaseDropped ==
    [][ (FrameStep /\ game_state = "InGame")
        => /\ turn_phase.tag = "Moving"
                => /\ \A die \in AllDies :
                         Decided(AfterRolls(die))
                            = Decided(Entry(Authority, ReadableMoves))
                   /\ roll_old' = <<>> /\ roll_new' = <<>>
           /\ PhaseAfterRolls = Rolling
                => /\ <<players', dice', turn_phase', current_turn'>>
                         = <<players, dice, turn_phase, current_turn>>
                   /\ move_old' = <<>> /\ move_new' = <<>> ]_vars

\* A sequence without its k-th element.
Without(seq, k) == SubSeq(seq, 1, k - 1) \o SubSeq(seq, k + 1, Len(seq))

\* The handler's state in its move loop: what it decides and sends, the
\* steps counted and whether it has returned.
InLoop(h) == <<Decided(h), h.new_steps_taken, h.returned>>

\* The handler, at the k-th readable move request, finds it to be a move
\* of turn holder i to a cell outside the board, with steps left.
C12_Case(i, k, die, pick) ==
    /\ BeforeMove(k, die, pick).turn_phase.tag = "Moving"
    /\ ~BeforeMove(k, die, pick).returned
    /\ BeforeMove(k, die, pick).new_steps_taken < BeforeMove(k, die, pick).dice
    /\ players[i].client_id = ReadableMoves[k].client_id
    /\ players[i].player_number = current_turn
    /\ ~InBoard(Target(BeforeMove(k, die, pick).players[i], ReadableMoves[k]))

\* C12: a move request of the turn holder to a cell outside the board
\* changes nothing (coordinates, steps, phase, turn, dice, pool) and sends
\* nothing, and the frame ends as it would without that request: the
\* requests after it are processed.
C12_OutOfBoardNoOp ==
    game_state = "InGame" =>
        \A die \in AllDies, pick \in Picks, k \in 1..Len(ReadableMoves) :
            \A i \in 1..Len(players) :
                C12_Case(i, k, die, pick)
                => /\ InLoop(BeforeMove(k + 1, die, pick)) = InLoop(BeforeMove(k, die, pick))
                   /\ Decided(Received(die, pick))
                         = Decided(server_receive_requests(
                                       Authority, maze, max_players, ReadableRolls,
                                       Without(ReadableMoves, k), die, pick))

\* C12's case: the turn holder asks to leave the board and then, in the
\* same frame, makes a move that takes them to another cell.
C12_Witness ==
    /\ game_state = "InGame"
    /\ \E die \in Dies, pick \in Picks, k \in 1..(Len(ReadableMoves) - 1) :
          \E i \in 1..Len(players) :
              /\ C12_Case(i, k, die, pick)
              /\ BeforeMove(k + 2, die, pick).players[i].coords
                    \in OpenNeighbours(maze, BeforeMove(k + 1, die, pick).players[i].coords)

\* C13: a request of the move loop leaves each player's coordinate, or
\* takes it one step across an edge with no barrier, or resets it to the
\* start cell of that player's index; the frame ends with the coordinates
\* the loop left, and with the old ones when the loop does not run.
C13_NoBarrierCrossed ==
    game_state = "InGame" =>
        \A die \in AllDies, pick \in Picks, i \in 1..Len(players) :
            IF PhaseAfterRolls.tag = "Moving"
            THEN /\ \A k \in 1..Len(ReadableMoves) :
                       \/ BeforeMove(k + 1, die, pick).players[i].coords
                             = BeforeMove(k, die, pick).players[i].coords
                       \/ BeforeMove(k + 1, die, pick).players[i].coords
                             \in OpenNeighbours(maze, BeforeMove(k, die, pick).players[i].coords)
                       \/ BeforeMove(k + 1, die, pick).players[i].coords
                             = StartCell(players[i].player_number)
                 /\ BeforeMove(1, die, pick).players[i].coords = players[i].coords
                 /\ FrameOutcome(die, pick).players[i].coords
                       = BeforeMove(Len(ReadableMoves) + 1, die, pick).players[i].coords
            ELSE FrameOutcome(die, pick).players[i].coords = players[i].coords

\* C13's case: in one frame a player takes a step and then, away from
\* the start cell and not next to it, is reset to it by a barrier.
C13_Witness ==
    /\ game_state = "InGame" /\ Len(ReadableMoves) = 2
    /\ \E die \in Dies, pick \in Picks, i \in 1..Len(players) :
          /\ C4_Case(i, 2, die, pick)
          /\ BeforeMove(2, die, pick).players[i].coords
                \in OpenNeighbours(maze, players[i].coords)
          /\ StartCell(players[i].player_number)
                \notin OpenNeighbours(maze, BeforeMove(2, die, pick).players[i].coords)
                       \cup {BeforeMove(2, die, pick).players[i].coords}
          /\ FrameOutcome(die, pick).players[i].coords = StartCell(players[i].player_number)

\* The number of successful-move animations among the events sent.
Successes(sent) ==
    Cardinality({n \in 1..Len(sent) : sent[n].type = "PlayerStartMoveAnimation"
                                       /\ ~sent[n].fail})

\* C14: the steps never exceed the dice value; a move request the handler
\* comes to with the steps at the dice value changes nothing; the
\* successful moves of a frame fit in what the dice value left; and the
\* requests in surplus are read with the others, so none is left for the
\* next turn.
C14_AtMostDiceMoves ==
    /\ turn_phase.tag = "Moving" => turn_phase.steps_taken < dice
    /\ (game_state = "InGame" /\ PhaseAfterRolls.tag = "Moving") =>
          \A die \in AllDies, pick \in Picks :
              /\ \A k \in 1..Len(ReadableMoves) :
                    /\ BeforeMove(k + 1, die, pick).new_steps_taken
                          <= BeforeMove(k + 1, die, pick).dice
                    /\ BeforeMove(k, die, pick).new_steps_taken
                          >= BeforeMove(k, die, pick).dice
                       => InLoop(BeforeMove(k + 1, die, pick))
                             = InLoop(BeforeMove(k, die, pick))
              /\ Successes(FrameOutcome(die, pick).sent)
                    <= AfterRolls(die).dice - AfterRolls(die).turn_phase.steps_taken
              /\ FrameOutcome(die, pick).game_state = "InGame"
                    => FrameOutcome(die, pick).unread_moves = <<>>

\* C14's case: in a game of several players the turn holder's move uses
\* up the dice value and another move request of theirs follows it in the
\* same frame.
C14_Witness ==
    /\ game_state = "InGame" /\ max_players >= 2 /\ Len(ReadableMoves) = 2
    /\ HoldsTurn(ReadableMoves[2].client_id)
    /\ \E die \in Dies, pick \in Picks :
          /\ PhaseAfterRolls.tag = "Moving"
          /\ BeforeMove(2, die, pick).new_steps_taken = BeforeMove(2, die, pick).dice
          /\ Successes(FrameOutcome(die, pick).sent) = 1
          /\ InBoard(Step(FrameOutcome(die, pick).players[
                              FindTurnPlayer(players, ReadableMoves[2].client_id, current_turn)
                          ].coords, ReadableMoves[2].event))

\* What the handler does with the readable move requests alone when the
\* frame starts in phase Moving(0) with dice value die.
C15_MovesAfterRoll(die, pick) ==
    server_receive_requests([Authority EXCEPT !.turn_phase = Moving(0), !.dice = die],
                            maze, max_players, <<>>, ReadableMoves, die, pick)

\* C15: when the phase is Rolling and a roll request of the turn holder is
\* readable, the roll takes effect and the readable move requests are
\* resolved in the same frame against Moving(0) with the dice value just
\* rolled. (The requests of the two kinds are kept in two queues; their
\* order of arrival relative to each other is not part of the state.)
C15_RollsBeforeMoves ==
    (game_state = "InGame" /\ turn_phase = Rolling
     /\ \E r \in Range(ReadableRolls) : HoldsTurn(r))
    => \A die \in AllDies, pick \in Picks :
          /\ Received(die, pick).dice = die
          /\ Received(die, pick).sent
                = <<TurnPhaseEvent(Moving(0))>> \o C15_MovesAfterRoll(die, pick).sent
          /\ Received(die, pick).players = C15_MovesAfterRoll(die, pick).players
          /\ Received(die, pick).turn_phase = C15_MovesAfterRoll(die, pick).turn_phase
          /\ Received(die, pick).current_turn = C15_MovesAfterRoll(die, pick).current_turn
          /\ Received(die, pick).available_items
                = C15_MovesAfterRoll(die, pick).available_items
          /\ Received(die, pick).next_game_state
                = C15_MovesAfterRoll(die, pick).next_game_state
          /\ FrameOutcome(die, pick).turn_phase = Received(die, pick).turn_phase

\* C15's case: in a game of several players the turn holder's roll and
\* move request are readable in phase Rolling, and the frame moves them.
C15_Witness ==
    /\ game_state = "InGame" /\ max_players >= 2 /\ turn_phase = Rolling
    /\ \E r \in Range(ReadableRolls) : HoldsTurn(r)
    /\ \E request \in Range(ReadableMoves) : HoldsTurn(request.client_id)
    /\ \E die \in Dies, pick \in Picks :
          /\ Successes(FrameOutcome(die, pick).sent) = 1
          /\ FrameOutcome(die, pick).players # players

\* C16: every player's coordinate lies in the 6x6 grid, and so does the
\* start cell of each of the four player indices.
C16_CoordsInGrid ==
    /\ \A i \in 1..Len(players) :
          /\ players[i].coords.x \in 0..5
          /\ players[i].coords.y \in 0..5
    /\ \A n \in 0..(MaxPlayersArg - 1) :
          /\ get_player_start_coords(n).x \in 0..5
          /\ get_player_start_coords(n).y \in 0..5

\* C16's case: a player who has left the start cell and come to the far
\* edge of the board is asked to step over it.
C16_Witness ==
    /\ game_state = "InGame"
    /\ \E die \in Dies, pick \in Picks, k \in 1..Len(ReadableMoves) :
          \E i \in 1..Len(players) :
              /\ C12_Case(i, k, die, pick)
              /\ players[i].coords # StartCell(players[i].player_number)
              /\ \/ Target(BeforeMove(k, die, pick).players[i], ReadableMoves[k]).x = 6
                 \/ Target(BeforeMove(k, die, pick).players[i], ReadableMoves[k]).y = 6

\* C17: no player's achieved list is longer than five, and at most one
\* player's achieved list has five items.
C17_AtMostFiveAtMostOne ==
    /\ \A i \in 1..Len(players) : Len(players[i].achieved_items) <= 5
    /\ Cardinality({i \in 1..Len(players) : Len(players[i].achieved_items) = 5}) <= 1

\* C17's case: one of two players has five items, and the other, with
\* four, has a request readable for the step onto their fifth.
C17_Witness ==
    /\ Len(players) = 2
    /\ \E i, j \in 1..2 :
          /\ Len(players[i].achieved_items) = 5
          /\ Len(players[j].achieved_items) = 4
          /\ \E request \in Range(ReadableMoves) :
                /\ request.client_id = players[j].client_id
                /\ Target(players[j], request) = coords(players[j].target_item[1])
                /\ ~Barred(maze, players[j].coords, Target(players[j], request))

\* The items the players hold, as targets and as achieved items, one
\* entry for each place.
RECURSIVE Holdings(_)
Holdings(ps) ==
    IF ps = <<>>
    THEN <<>>
    ELSE Head(ps).target_item \o Head(ps).achieved_items \o Holdings(Tail(ps))

\* C18: the pool, the target slots and the achieved lists together hold
\* each of the 24 items exactly once.
C18_EachItemInOnePlace ==
    /\ Len(available_items \o Holdings(players)) = 24
    /\ Range(available_items \o Holdings(players)) = 0..23

\* C18's case: in a game of several players items are in the pool, in
\* every target slot and in an achieved list.
C18_Witness ==
    /\ Len(players) >= 2
    /\ \A i \in 1..Len(players) : players[i].target_item # None
    /\ \E i \in 1..Len(players) : players[i].achieved_items # <<>>
    /\ available_items # <<>>

\* The number of achieved items of all players.
RECURSIVE TotalAchieved(_)
TotalAchieved(ps) ==
    IF ps = <<>> THEN 0 ELSE Len(Head(ps).achieved_items) + TotalAchieved(Tail(ps))

\* C19: the pool starts with all 24 items; every step leaves it a subset
\* of what it was, smaller by one item for each player created and each
\* pickup that does not win in that step, and by nothing else.
C19_PoolOnlyShrinks ==
    /\ available_items = ALL /\ Len(ALL) = 24
    /\ [][ /\ Range(available_items') \subseteq Range(available_items)
           /\ Len(available_items) - Len(available_items')
                 = (Len(players') - Len(players))
                   + (TotalAchieved(players') - TotalAchieved(players))
                   - (IF game_state' = "Win" /\ game_state # "Win" THEN 1 ELSE 0) ]_vars

\* C19's case: the pool has lost items to the creation of several players
\* and to a pickup.
C19_Witness ==
    /\ Len(players) >= 2
    /\ TotalAchieved(players) >= 1
    /\ Len(available_items) = 24 - Len(players) - TotalAchieved(players)

\* C20: a frame that reads a disconnect notification, of whatever
\* connection and in whatever GameState, ends the authority; and once it
\* has ended nothing happens any more.
C20_DisconnectEndsSession ==
    /\ (pc = "serve" /\ \E n \in 1..Len(server_events) :
                           server_events[n].type = "ClientDisconnected")
          => \A die \in AllDies, pick \in Picks : FrameOutcome(die, pick).app_exit
    /\ pc = "exit" => ~ENABLED Next

\* C20's case: in a game in progress the connection that does not hold
\* the turn has closed.
C20_Witness ==
    /\ pc = "serve" /\ game_state = "InGame" /\ max_players >= 2
    /\ \E n \in 1..Len(server_events) :
          /\ server_events[n].type = "ClientDisconnected"
          /\ ~HoldsTurn(server_events[n].client_id)

\* The number of rolls that took effect among the events sent: a roll,
\* and nothing else, announces the phase Moving(0).
Rolls(sent) ==
    Cardinality({n \in 1..Len(sent) : sent[n] = TurnPhaseEvent(Moving(0))})

\* C21: a frame changes the dice value only by a roll that takes effect
\* (the phase is Rolling and a readable roll request is the turn
\* holder's), and then to the value drawn; the move loop and the turn
\* change leave it as the roll loop left it; no frame has more than one
\* roll taking effect, and none in a Moving phase.
C21_DiceOnlyByRoll ==
    pc = "serve" =>
        \A die \in AllDies, pick \in Picks :
            /\ FrameOutcome(die, pick).dice # dice
                  => /\ game_state = "InGame" /\ turn_phase = Rolling
                     /\ \E r \in Range(ReadableRolls) : HoldsTurn(r)
            /\ Rolls(FrameOutcome(die, pick).sent)
                  = (IF /\ game_state = "InGame" /\ turn_phase = Rolling
                        /\ \E r \in Range(ReadableRolls) : HoldsTurn(r)
                     THEN 1 ELSE 0)
            /\ Rolls(FrameOutcome(die, pick).sent) = 1
                  => FrameOutcome(die, pick).dice = die
            /\ game_state = "InGame"
                  => FrameOutcome(die, pick).dice = AfterRolls(die).dice

\* C21's case: in a game of several players, after an earlier turn, a roll
\* of the turn holder that draws another value and moves that end the turn
\* are handled in one frame.
C21_Witness ==
    /\ game_state = "InGame" /\ max_players >= 2 /\ handovers >= 1
    /\ turn_phase = Rolling /\ dice # 0
    /\ \E r \in Range(ReadableRolls) : HoldsTurn(r)
    /\ \E die \in Dies, pick \in Picks :
          /\ die # dice
          /\ FrameOutcome(die, pick).current_turn # current_turn
          /\ FrameOutcome(die, pick).dice = die

\* Every barrier set in maze a is set in maze b.
BarriersKept(a, b) ==
    /\ \A y \in 0..4, x \in 0..5 : a.horizontal_bars[y][x] => b.horizontal_bars[y][x]
    /\ \A y \in 0..5, x \in 0..4 : a.vertical_bars[y][x] => b.vertical_bars[y][x]

\* C22: the maze holds as many barriers as iterations of the outer loop
\* have ended, so tile_count of them when generate returns, for each
\* tile_count of 15..20; a pass that ends an iteration adds one barrier to
\* those set, and any other pass leaves the maze as it was.
C22_ExactBarrierCount ==
    /\ BarrierCount(maze) = tiles_done
    /\ tiles_done <= num_tiles
    /\ pc # "generate" => BarrierCount(maze) = num_tiles
    /\ pc = "generate" =>
          IF GenPass(maze, rng).placed
          THEN /\ BarrierCount(GenPass(maze, rng).maze) = BarrierCount(maze) + 1
               /\ BarriersKept(maze, GenPass(maze, rng).maze)
          ELSE GenPass(maze, rng).maze = maze

\* C22's case: generating 20 barriers, the pass for the last one draws a
\* position that is not set and whose barrier would cut the maze in two.
C22_Witness ==
    /\ pc = "generate" /\ num_tiles = 20 /\ tiles_done = 19
    /\ Candidate(maze, rng) # maze
    /\ ~FullyConnected(Candidate(maze, rng))
    /\ ~GenPass(maze, rng).placed

\* The handler's state after the k-th readable move request.
AfterMove(k, die, pick) ==
    MoveOne(BeforeMove(k, die, pick), maze, ReadableMoves[k], pick)

\* The move loop runs and its k-th request completes a win: a player who
\* had fewer than ITEMS_TO_WIN items has that many after it.
Wins(k, die, pick) ==
    /\ AfterRolls(die).turn_phase # Rolling
    /\ \E i \in 1..Len(players) :
          /\ Len(BeforeMove(k, die, pick).players[i].achieved_items) < ITEMS_TO_WIN
          /\ Len(AfterMove(k, die, pick).players[i].achieved_items) >= ITEMS_TO_WIN

\* The frame ends with what the handler state w holds, in the phase and the
\* turn the roll loop left, the game won, the requests after the k-th unread.
EndsAt(o, w, k, die) ==
    /\ o.players = w.players
    /\ o.dice = w.dice /\ o.dice = AfterRolls(die).dice
    /\ o.available_items = w.available_items
    /\ o.turn_phase = AfterRolls(die).turn_phase
    /\ o.current_turn = current_turn
    /\ o.game_state = "Win"
    /\ o.unread_moves = SubSeq(ReadableMoves, k + 1, Len(ReadableMoves))

\* The frame leaves the session as it is.
Frozen(o) ==
    /\ o.players = players
    /\ o.dice = dice
    /\ o.available_items = available_items
    /\ o.turn_phase = turn_phase
    /\ o.current_turn = current_turn
    /\ o.game_state = game_state

\* C23: the frame in which a move request completes a win ends with the
\* state that request left: the requests after it are not read, the pool is
\* not drawn from, the phase keeps the step count it had and the turn stays
\* with the winner, even when the move was the last step of the dice; and
\* in GameState Win no frame, whatever requests are readable, changes a
\* player, the dice value, the pool, the phase or CurrentTurn.
C23_WinFreezes ==
    pc = "serve" =>
        \A die \in AllDies, pick \in Picks :
            /\ game_state = "Win" => Frozen(FrameOutcome(die, pick))
            /\ game_state = "InGame" =>
                  \A k \in 1..Len(ReadableMoves) :
                      Wins(k, die, pick) =>
                          /\ EndsAt(FrameOutcome(die, pick), AfterMove(k, die, pick), k, die)
                          /\ AfterMove(k, die, pick).available_items = available_items

\* C23's case: the turn holder is on the last step of the dice, the first
\* readable move request completes the win and another request follows it.
C23_Witness ==
    /\ game_state = "InGame" /\ next_game_state = "None"
    /\ dice >= 2 /\ turn_phase = Moving(dice - 1)
    /\ Len(ReadableMoves) >= 2
    /\ \E pick \in Picks : Wins(1, dice, pick)

\* CurrentTurn t is a player index of a game of player_count players, and
\* in phase Moving(n) the dice value d is one of 1..4 and n is less than d.
WellFormed(t, phase, d, player_count) ==
    /\ t \in 0..(player_count - 1)
    /\ phase.tag = "Moving" => d \in 1..4 /\ phase.steps_taken \in 0..(d - 1)

\* C24: between frames, and at the end of the frame that follows for any
\* value of the dice table, CurrentTurn is in 0..player_count-1, and in a
\* phase Moving(n) the dice value is one of 1, 2, 3, 4 and n is less than it.
C24_TurnStateWellFormed ==
    pc = "serve" =>
        /\ WellFormed(current_turn, turn_phase, dice, max_players)
        /\ \A die \in AllDies, pick \in Picks :
              WellFormed(FrameOutcome(die, pick).current_turn,
                         FrameOutcome(die, pick).turn_phase,
                         FrameOutcome(die, pick).dice, max_players)

\* C24's case: the last player of a game of several players has taken one
\* step of two, and a move request of theirs is about to end the turn.
C24_Witness ==
    /\ game_state = "InGame" /\ max_players >= 2
    /\ current_turn = max_players - 1
    /\ turn_phase = Moving(1) /\ dice = 2
    /\ \E die \in Dies, pick \in Picks :
          /\ FrameOutcome(die, pick).current_turn = 0
          /\ FrameOutcome(die, pick).turn_phase = Rolling

\* b is the cell above, below, left or right of a.
GridAdjacent(a, b) ==
    \/ a.x = b.x /\ (b.y = a.y + 1 \/ a.y = b.y + 1)
    \/ a.y = b.y /\ (b.x = a.x + 1 \/ a.x = b.x + 1)

\* The row and the column is_blocked indexes, and the grid it indexes.
BarRow(from, to) == IF from.x = to.x THEN Min(from.y, to.y) ELSE from.y
BarColumn(from, to) == IF from.x = to.x THEN from.x ELSE Min(from.x, to.x)
BarGrid(m, from, to) == IF from.x = to.x THEN m.horizontal_bars ELSE m.vertical_bars

\* C25: on every maze of the generation, for cells a and b of the board:
\* the assertion of is_blocked holds exactly when they are adjacent; when
\* they are, the row and column indexed lie in the 5x6 horizontal or the
\* 6x5 vertical grid, is_blocked(a, b) = is_blocked(b, a), the step from
\* (x, y) to (x, y+1) gives horizontal_bars[y][x] and the step from (x, y)
\* to (x+1, y) gives vertical_bars[y][x].
C25_BlockedIsTheBarrier ==
    \A a \in Cells, b \in Cells :
        /\ AdjacentOk(a, b) <=> GridAdjacent(a, b)
        /\ GridAdjacent(a, b) =>
              /\ BarRow(a, b) \in DOMAIN BarGrid(maze, a, b)
              /\ BarColumn(a, b) \in DOMAIN BarGrid(maze, a, b)[BarRow(a, b)]
              /\ DOMAIN maze.horizontal_bars = 0..4
              /\ \A y \in 0..4 : DOMAIN maze.horizontal_bars[y] = 0..5
              /\ DOMAIN maze.vertical_bars = 0..5
              /\ \A y \in 0..5 : DOMAIN maze.vertical_bars[y] = 0..4
              /\ is_blocked(maze, a, b) = is_blocked(maze, b, a)
              /\ (a.x = b.x /\ b.y = a.y + 1)
                    => is_blocked(maze, a, b) = maze.horizontal_bars[a.y][a.x]
              /\ (a.y = b.y /\ b.x = a.x + 1)
                    => is_blocked(maze, a, b) = maze.vertical_bars[a.y][a.x]

\* C25's case: a maze generated with 20 barriers, some of them horizontal
\* and some vertical, and an open edge.
C25_Witness ==
    /\ pc = "serve" /\ num_tiles = MaxTiles
    /\ \E a \in Cells, b \in Cells :
          /\ a.x = b.x /\ a.y = b.y + 1 /\ is_blocked(maze, a, b)
    /\ \E a \in Cells, b \in Cells :
          /\ a.y = b.y /\ a.x = b.x + 1 /\ is_blocked(maze, a, b)
    /\ \E a \in Cells, b \in Cells :
          /\ GridAdjacent(a, b) /\ ~is_blocked(maze, a, b)

\* The barrier positions of the two grids, and maze m with the barrier at
\* position p set.
Positions ==
    {<<"horizontal", y, x>> : y \in 0..4, x \in 0..5}
        \cup {<<"vertical", y, x>> : y \in 0..5, x \in 0..4}

IsSet(m, p) ==
    IF p[1] = "horizontal"
    THEN m.horizontal_bars[p[2]][p[3]]
    ELSE m.vertical_bars[p[2]][p[3]]

WithBarrier(m, p) ==
    IF p[1] = "horizontal"
    THEN [m EXCEPT !.horizontal_bars[p[2]][p[3]] = TRUE]
    ELSE [m EXCEPT !.vertical_bars[p[2]][p[3]] = TRUE]

\* The cells connected to (0, 0) over unbarred edges.
ConnectedToAnchor(m) == Flood(m, {IVec2(0, 0)}, {IVec2(0, 0)})

\* dfs from (0, 0) marks the cells connected to it and no others, all of
\* them cells of the board, and is_valid tells whether they are all 36.
SearchExact(m) ==
    LET marked == dfs(m, IVec2(0, 0), {})
    IN /\ marked = ConnectedToAnchor(m)
       /\ marked \subseteq Cells
       /\ is_valid(m) <=> Cardinality(marked) = 36

\* C26: on every maze of the generation, and on each of them with one more
\* barrier at any position (the mazes the generator can test, the
\* disconnected ones among them), the search from (0, 0) ends having marked
\* exactly the cells connected to (0, 0), and is_valid is true exactly when
\* these are all 36 cells.
C26_ValidIffConnected ==
    /\ SearchExact(maze)
    /\ \A p \in Positions : SearchExact(WithBarrier(maze, p))

\* C26's case: the generator is about to test a barrier that would cut
\* some cells, but not all, off from (0, 0).
C26_Witness ==
    /\ pc = "generate"
    /\ Candidate(maze, rng) # maze
    /\ ~is_valid(Candidate(maze, rng))
    /\ Cardinality(ConnectedToAnchor(Candidate(maze, rng))) \in 2..35

\* The positions at which the generator can end the iteration on maze m:
\* not set, and all 36 cells connected with the barrier there.
Placeable(m) ==
    {p \in Positions : ~IsSet(m, p) /\ FullyConnected(WithBarrier(m, p))}

\* C28: while Maze::generate has barriers left to place, for each
\* tile_count of 15..20, the maze has a position that is not set and whose
\* barrier leaves all 36 cells connected: a pass that draws it ends the
\* iteration.
C28_PlacementExists ==
    /\ num_tiles \in MinTiles..MaxTiles
    /\ (pc = "generate" /\ tiles_done < num_tiles) => Placeable(maze) # {}

\* C28's case: 19 of 20 barriers are placed; of the positions left some
\* would cut the maze and some would not.
C28_Witness ==
    /\ pc = "generate" /\ num_tiles = MaxTiles /\ tiles_done = MaxTiles - 1
    /\ BarrierCount(maze) = MaxTiles - 1
    /\ Placeable(maze) # {}
    /\ \E p \in Positions : ~IsSet(maze, p) /\ p \notin Placeable(maze)

\* The GameState the authority has set: the one queued in NextState when
\* there is one (StateTransition of the next frame makes it current).
SetGameState(state, queued) == IF queued # "None" THEN queued ELSE state

\* The view a client holds when every broadcast so far has reached it.
AuthorityView ==
    View(SetGameState(game_state, next_game_state), turn_phase, current_turn)

\* The same at the end of the frame with outcome o.
OutcomeView(o) ==
    View(SetGameState(o.game_state, o.next_game_state), o.turn_phase, o.current_turn)

\* The client's view after the broadcasts `sent`, delivered in order in two
\* batches split after the first n.
Delivered(v, sent, n) ==
    client_on_rep_game_state(client_on_rep_game_state(v, SubSeq(sent, 1, n)),
                             SubSeq(sent, n + 1, Len(sent)))

\* C27: the authority starts with the values a client starts with
\* (WaitingPlayers, Rolling, 0), and a client whose GameState, TurnPhase and
\* CurrentTurn are those the authority has set holds, after the broadcasts
\* of the next frame have reached it in order, however split into batches,
\* the values the authority has set at the end of that frame; so a frame
\* that changes one of the three broadcasts the new value.
C27_ViewFollowsAuthority ==
    /\ pc = "generate" => AuthorityView = View("WaitingPlayers", Rolling, 0)
    /\ pc = "serve" =>
          \A die \in AllDies, pick \in Picks :
              \A n \in 0..Len(FrameOutcome(die, pick).sent) :
                  Delivered(AuthorityView, FrameOutcome(die, pick).sent, n)
                      = OutcomeView(FrameOutcome(die, pick))

\* C27's case: in a game of several players, a frame in which the roll and
\* the moves that end the turn are handled: two TurnPhase broadcasts and a
\* CurrentTurn broadcast with a new value.
C27_Witness ==
    /\ game_state = "InGame" /\ max_players >= 2 /\ turn_phase = Rolling
    /\ \E die \in Dies, pick \in Picks :
          /\ FrameOutcome(die, pick).current_turn # current_turn
          /\ Rolls(FrameOutcome(die, pick).sent) = 1
          /\ LastOf(FrameOutcome(die, pick).sent, "TurnPhase")
                = Some(TurnPhaseEvent(Rolling))
          /\ LastOf(FrameOutcome(die, pick).sent, "CurrentTurn")
                = Some(CurrentTurnEvent(FrameOutcome(die, pick).current_turn))

\* The handler's state after a frame whose only readable request is a roll
\* request of connection client_id, and after one whose only readable
\* request is that connection's move request `event`.
OnRoll(client_id, die, pick) ==
    server_receive_requests(Authority, maze, max_players, <<client_id>>, <<>>, die, pick)

OnMove(client_id, event, die, pick) ==
    server_receive_requests(Authority, maze, max_players, <<>>,
                            <<[client_id |-> client_id, event |-> event]>>, die, pick)

\* The turn has a holder, and some request of the holder changes what the
\* handler decides.
HolderCanAct ==
    \E i \in 1..Len(players) :
        /\ players[i].player_number = current_turn
        /\ \E die \in AllDies, pick \in Picks :
              \/ Decided(OnRoll(players[i].client_id, die, pick))
                    # Decided(Entry(Authority, <<>>))
              \/ \E event \in MoveRequests :
                    Decided(OnMove(players[i].client_id, event, die, pick))
                        # Decided(Entry(Authority, <<>>))

\* In phase Moving(n) the handler state o, left by an in-bounds move request
\* of the holder, is the win, the turn passed on in phase Rolling, or
\* phase Moving(n + 1) with n + 1 below the dice value.
Advanced(o) ==
    \/ o.next_game_state = "Win"
    \/ /\ o.turn_phase = Rolling
       /\ o.current_turn = NextTurn(current_turn, max_players)
    \/ /\ o.turn_phase = Moving(turn_phase.steps_taken + 1)
       /\ turn_phase.steps_taken + 1 < dice

\* C29: in GameState InGame the turn has a holder, some request of the
\* holder changes the state, and in phase Moving(n) every in-bounds move
\* request of the holder ends the turn (phase Rolling, the turn passed on),
\* wins, or leaves phase Moving(n + 1) with n + 1 below the dice value, so
\* that a turn ends within dice-value such requests.
C29_TurnAlwaysEnds ==
    (pc = "serve" /\ game_state = "InGame") =>
        /\ HolderCanAct
        /\ turn_phase.tag = "Moving" =>
              \A i \in 1..Len(players), event \in MoveRequests,
                 die \in AllDies, pick \in Picks :
                  (/\ players[i].player_number = current_turn
                   /\ InBoard(Step(players[i].coords, event)))
                      => Advanced(OnMove(players[i].client_id, event, die, pick))

\* take_random returns an item n times in a row from the pool `items`.
RECURSIVE DrawsSucceed(_, _, _)
DrawsSucceed(items, n, pick) ==
    \/ n = 0
    \/ /\ take_random(items, pick).item # None
       /\ DrawsSucceed(take_random(items, pick).items, n - 1, pick)

\* Every player of ps has a target, but for one with ITEMS_TO_WIN achieved
\* items once the game is won.
TargetsSet(ps, state) ==
    \A i \in 1..Len(ps) :
        ps[i].target_item = None
            => state = "Win" /\ Len(ps[i].achieved_items) >= ITEMS_TO_WIN

\* C30: with four players the draws a game can need (one for each player
\* created, one for each of a player's first four pickups) all return an
\* item from the full pool; the pool is never empty; in WaitingPlayers and
\* InGame every player has a target, between frames and at the end of the
\* frame that follows, and in Win the players without one are those with
\* five items.
C30_PoolSuffices ==
    /\ \A pick \in Picks :
          DrawsSucceed(ALL, MaxPlayersArg + MaxPlayersArg * (ITEMS_TO_WIN - 1), pick)
    /\ pc = "serve" =>
          /\ available_items # <<>>
          /\ TargetsSet(players, game_state)
          /\ game_state = "Win" =>
                \A i \in 1..Len(players) :
                    Len(players[i].achieved_items) >= ITEMS_TO_WIN
                        => players[i].target_item = None
          /\ \A die \in AllDies, pick \in Picks :
                /\ FrameOutcome(die, pick).available_items # <<>>
                /\ TargetsSet(FrameOutcome(die, pick).players,
                              FrameOutcome(die, pick).game_state)

\* C30's case: a game of four players, each with four items after the
\* pickup of the player whose turn it is, every one with a target, the pool
\* down to four items.
C30_Witness ==
    /\ game_state = "InGame" /\ Len(players) = MaxPlayersArg
    /\ \A i \in 1..Len(players) :
          Len(players[i].achieved_items) = ITEMS_TO_WIN - 1
              /\ players[i].target_item # None
    /\ Len(available_items) = 4
\* The cells of the 24 items, and the start cells of the four player
\* indices.
ItemCells == {coords(item) : item \in 0..23}
StartCells == {get_player_start_coords(n) : n \in 0..(MaxPlayersArg - 1)}

\* No player of ps stands on the cell of their target.
OffTarget(ps) ==
    \A i \in 1..Len(ps) :
        ps[i].target_item # None => ps[i].coords # coords(ps[i].target_item[1])

\* Between the handler states b and a player i gets one more achieved item.
PicksUp(b, a, i) ==
    Len(a.players[i].achieved_items) = Len(b.players[i].achieved_items) + 1

\* In the handler state a player i stands on the cell of the target they
\* had in the handler state b.
Enters(b, a, i) ==
    /\ b.players[i].target_item # None
    /\ a.players[i].coords = coords(b.players[i].target_item[1])

\* The request handled between the handler states b and a leaves no player
\* on the cell of their target, and gives a player an item exactly when it
\* brings them onto the cell of their target.
MoveExact(b, a) ==
    /\ OffTarget(a.players)
    /\ \A i \in 1..Len(b.players) : PicksUp(b, a, i) <=> Enters(b, a, i)

\* C31: the 24 item cells are pairwise distinct and none is a start cell;
\* between frames, after every request of the move loop and at the end of
\* the frame no player stands on the cell of their own target; and a
\* request of the move loop gives a player an item exactly when it brings
\* them onto the cell of their target.
C31_NeverOnOwnTarget ==
    /\ Cardinality(ItemCells) = 24
    /\ ItemCells \cap StartCells = {}
    /\ pc = "serve" =>
          /\ OffTarget(players)
          /\ \A die \in AllDies, pick \in Picks :
                /\ OffTarget(FrameOutcome(die, pick).players)
                /\ (game_state = "InGame" /\ AfterRolls(die).turn_phase # Rolling) =>
                      \A k \in 1..Len(ReadableMoves) :
                          MoveExact(BeforeMove(k, die, pick), AfterMove(k, die, pick))

\* C31's case: in a game of several players a player stands on the cell of
\* the item they picked up last, with a new target, and another player has
\* been sent back to their start cell.
C31_Witness ==
    /\ game_state = "InGame" /\ max_players >= 2
    /\ \E i \in 1..Len(players) :
          /\ players[i].achieved_items # <<>>
          /\ players[i].target_item # None
          /\ players[i].coords
                = coords(players[i].achieved_items[Len(players[i].achieved_items)])
    /\ \E i \in 1..Len(players) :
          /\ players[i].coords = get_player_start_coords(players[i].player_number)
          /\ players[i].prev_coords # players[i].coords

\* The players whose record the frame with outcome o changes.
Changed(o) == {i \in 1..Len(players) : o.players[i] # players[i]}

\* C32: a frame changes the record (coordinates, pre-move coordinates,
\* target, achieved items) of at most one player, and only of one whose
\* index is CurrentTurn as the frame starts, whatever requests are
\* readable and also when the turn passes in the frame.
C32_OnlyHolderChanges ==
    pc = "serve" =>
        \A die \in AllDies, pick \in Picks :
            /\ Cardinality(Changed(FrameOutcome(die, pick))) <= 1
            /\ \A i \in Changed(FrameOutcome(die, pick)) :
                  players[i].player_number = current_turn

====
